---- MODULE Spec2Model ----
(***************************************************************************)
(* A model of the caddy-mirror handler: the mirroring dispatcher           *)
(* (Handler.ServeHTTP), the response recorders it builds, the pooled       *)
(* buffers it shares with other in-flight requests, and the comparator     *)
(* (compareStatus, compareHeaders, compareBody, compareJSON).              *)
(*                                                                         *)
(* Bytes are modelled as tokens.  A body is a sequence of tokens; the      *)
(* tokens "a1", "a2", "b", "c" are the JSON object members "a":1, "a":2,   *)
(* "b":[1,2,3], "c":"x", and "z" is a byte that makes the text invalid     *)
(* JSON.  Byte equality of two bodies is equality of the sequences, while  *)
(* json.Unmarshal maps a sequence to the JSON value it denotes.            *)
(***************************************************************************)
EXTENDS Integers, Sequences, FiniteSets, TLC

\* ------------------------------------------------------------------ bounds

\* Longest body a handler writes, in tokens.
MaxBody == 1
\* Number of writes the other in-flight request makes into a pooled buffer.
MaxOtherWrites == 1

\* ------------------------------------------------------------ JSON values

JNull == [t |-> "null"]
JNum(n) == [t |-> "num", n |-> n]
JStr(s) == [t |-> "str", s |-> s]
JArr(a) == [t |-> "arr", a |-> a]
JObj(o) == [t |-> "obj", o |-> o]

Tokens == {"a1", "a2", "b", "c", "z"}

\* The member key a token spells.
TokKey(tok) ==
    CASE tok = "a1" -> "a"
      [] tok = "a2" -> "a"
      [] tok = "b" -> "b"
      [] OTHER -> "c"

\* The member value a token spells.
TokVal(tok) ==
    CASE tok = "a1" -> JNum(1)
      [] tok = "a2" -> JNum(2)
      [] tok = "b" -> JArr(<<JNum(1), JNum(2), JNum(3)>>)
      [] OTHER -> JStr("x")

\* Index of the last member of bs spelling key k (a later duplicate wins).
LastIndexOfKey(bs, k) ==
    LET I == {i \in 1..Len(bs) : TokKey(bs[i]) = k}
    IN CHOOSE i \in I : \A j \in I : j <= i

\* json.Unmarshal(bs, &v) with the error dropped: v stays nil (JSON null)
\* when bs is empty or is not valid JSON, else v is the decoded object.
Unmarshal(bs) ==
    IF bs = <<>> \/ \E i \in 1..Len(bs) : bs[i] = "z"
    THEN JNull
    ELSE JObj([k \in {TokKey(bs[i]) : i \in 1..Len(bs)} |->
                 TokVal(bs[LastIndexOfKey(bs, k)])])

\* ------------------------------------------------------------- jq queries

\* The result sequence of jq.Run(v) for the queries "." and ".<key>":
\* identity yields the input, a field access yields the member or null.
\* The bodies of this model decode to an object or to null, on which a
\* field access never fails.
QueryKey(q) ==
    CASE q = ".a" -> "a"
      [] q = ".b" -> "b"
      [] OTHER -> "c"

RunQuery(q, v) ==
    IF q = "."
    THEN <<v>>
    ELSE IF v.t = "obj" /\ QueryKey(q) \in DOMAIN v.o
         THEN <<v.o[QueryKey(q)]>>
         ELSE <<JNull>>

\* Go's == on two values of type any: values of different dynamic types are
\* unequal, values of one comparable type compare by value, and comparing
\* two maps or two slices panics at run time.
IfaceEq(x, y) ==
    IF x.t # y.t THEN "ne"
    ELSE IF x.t \in {"obj", "arr"} THEN "panic"
    ELSE IF x = y THEN "eq" ELSE "ne"

\* maps.Equal(pm, sm): unequal lengths are unequal; otherwise the keys of pm
\* are visited in an unspecified order and the first key that is missing or
\* unequal in sm ends the walk, so every outcome some order produces is
\* possible.
MapsEqual(pm, sm) ==
    IF Cardinality(DOMAIN pm) # Cardinality(DOMAIN sm) THEN {"ne"}
    ELSE LET Bad == {k \in DOMAIN pm : k \notin DOMAIN sm \/ IfaceEq(pm[k], sm[k]) = "ne"}
             Boom == {k \in DOMAIN pm : k \in DOMAIN sm /\ IfaceEq(pm[k], sm[k]) = "panic"}
         IN IF Bad = {} /\ Boom = {} THEN {"eq"}
            ELSE (IF Bad # {} THEN {"ne"} ELSE {}) \cup
                 (IF Boom # {} THEN {"panic"} ELSE {})

\* slices.Equal(psl, ssl): unequal lengths are unequal; otherwise elements
\* are compared in order and the first pair that is not equal decides.
RECURSIVE SlicesEqualFrom(_, _, _)
SlicesEqualFrom(psl, ssl, i) ==
    IF i > Len(psl) THEN "eq"
    ELSE IF IfaceEq(psl[i], ssl[i]) = "eq" THEN SlicesEqualFrom(psl, ssl, i + 1)
    ELSE IfaceEq(psl[i], ssl[i])

SlicesEqual(psl, ssl) ==
    IF Len(psl) # Len(ssl) THEN "ne" ELSE SlicesEqualFrom(psl, ssl, 1)

\* The type switch of compareJSON on one pair of results.
PairOutcomes(pn, sn) ==
    IF pn.t = "obj"
    THEN IF sn.t # "obj" THEN {"ne"} ELSE MapsEqual(pn.o, sn.o)
    ELSE IF pn.t = "arr"
    THEN IF sn.t # "arr" THEN {"ne"} ELSE {SlicesEqual(pn.a, sn.a)}
    ELSE {IF pn = sn THEN "eq" ELSE "ne"}

\* The pairwise walk of the two result iterators of one query, from
\* position i: a length difference is a mismatch, the first pair that is
\* not equal ends the walk.
RECURSIVE WalkOutcomes(_, _, _)
WalkOutcomes(pi, si, i) ==
    IF i > Len(pi) /\ i > Len(si) THEN {"eq"}
    ELSE IF i > Len(pi) \/ i > Len(si) THEN {"ne"}
    ELSE LET here == PairOutcomes(pi[i], si[i])
         IN (here \ {"eq"}) \cup
            (IF "eq" \in here THEN WalkOutcomes(pi, si, i + 1) ELSE {})

\* compareJSON over the parsed queries qs from index i: the first query
\* whose walk is not equal returns false (or panics); all equal is true.
RECURSIVE compareJSONFrom(_, _, _, _)
compareJSONFrom(qs, primaryBS, shadowBS, i) ==
    IF i > Len(qs) THEN {"eq"}
    ELSE LET here == WalkOutcomes(RunQuery(qs[i], Unmarshal(primaryBS)),
                                  RunQuery(qs[i], Unmarshal(shadowBS)), 1)
         IN (here \ {"eq"}) \cup
            (IF "eq" \in here THEN compareJSONFrom(qs, primaryBS, shadowBS, i + 1) ELSE {})

\* Handler.compareJSON: ranges over h.compareJQ, the parsed queries.
compareJSON(h, primaryBS, shadowBS) ==
    compareJSONFrom(h.compareJQ, primaryBS, shadowBS, 1)

\* ---------------------------------------------------------- configuration

\* The header names of the model, in canonical form.
HeaderNames == {"X", "Content-Encoding"}

\* textproto.CanonicalMIMEHeaderKey, which http.Header.Values and Get apply
\* to the name they are given.
CanonicalKey(k) == IF k = "x" THEN "X" ELSE k

NoHeaders == [k \in HeaderNames |-> <<>>]

\* http.Header.Values(k): the value list stored under the canonical name.
HdrValues(hdr, k) == hdr[CanonicalKey(k)]

\* http.Header.Get(k): the first value stored under the name, or "".
HdrGet(hdr, k) == IF HdrValues(hdr, k) = <<>> THEN "" ELSE HdrValues(hdr, k)[1]

\* Durations are counted in units of ten seconds.  The default timeout of
\* Provision is 30 * time.Second.
DefaultTimeout == 3

\* time.ParseDuration on the duration strings of the configurations.
ParseDuration(str) ==
    CASE str = "10s" -> 1
      [] str = "20s" -> 2
      [] str = "30s" -> 3

\* Handler.Provision on a decoded configuration raw.  MirrorRate is kept in
\* hundredths: a configured 0 becomes 1.0 (100), any other value is divided
\* by 100.  compareJQ holds the parsed queries when CompareJQ is non-empty.
\* The match and mismatch counters are created only when CompareBody is set
\* or CompareJQ is not nil.  timeout is 30s unless Timeout is given.
Provision(raw) ==
    [CompareStatus |-> raw.CompareStatus,
     CompareBody |-> raw.CompareBody,
     CompareHeaders |-> raw.CompareHeaders,
     CompareJQNil |-> raw.CompareJQNil,
     CompareJQ |-> raw.CompareJQ,
     compareJQ |-> IF Len(raw.CompareJQ) > 0 THEN raw.CompareJQ ELSE <<>>,
     NoLog |-> raw.NoLog,
     MetricsName |-> raw.MetricsName,
     counters |-> raw.CompareBody \/ ~raw.CompareJQNil,
     MirrorRate |-> IF raw.MirrorRate = 0 THEN 100 ELSE raw.MirrorRate,
     timeout |-> IF raw.Timeout # "" THEN ParseDuration(raw.Timeout) ELSE DefaultTimeout]

\* Handler.shouldCompare
shouldCompare(h) ==
    \/ h.CompareBody
    \/ Len(h.compareJQ) > 0
    \/ h.CompareStatus
    \/ Len(h.CompareHeaders) > 0

\* A buffering predicate that admits the status 300.
shouldBufferUpTo300(h, status, hdr) ==
    /\ status >= 200
    /\ status <= 300
    /\ shouldCompare(h)
    /\ HdrGet(hdr, "Content-Encoding") = ""

\* A buffering predicate that does not look at Content-Encoding.
shouldBufferEncoded(h, status, hdr) ==
    /\ status >= 200
    /\ status < 300
    /\ shouldCompare(h)

\* Handler.shouldBuffer
shouldBuffer(h, status, hdr) ==
    /\ status >= 200
    /\ status < 300
    /\ shouldCompare(h)
    /\ HdrGet(hdr, "Content-Encoding") = ""

\* A sampling policy that reads the sentinel -1 as "always", like 0.
shouldMirrorNeverIsAlways(h, draw) ==
    CASE h.MirrorRate = 100 -> TRUE
      [] h.MirrorRate = 0 -> TRUE
      [] h.MirrorRate = -100 -> TRUE
      [] OTHER -> draw < h.MirrorRate

\* A sampling policy that also mirrors when the draw equals the rate.
shouldMirrorAtMost(h, draw) ==
    CASE h.MirrorRate = 100 -> TRUE
      [] h.MirrorRate = 0 -> TRUE
      [] h.MirrorRate = -100 -> FALSE
      [] OTHER -> draw <= h.MirrorRate

\* Handler.shouldMirror, with the draw of rand.Float64 and the rate both in
\* hundredths.
shouldMirror(h, draw) ==
    CASE h.MirrorRate = 100 -> TRUE
      [] h.MirrorRate = 0 -> TRUE
      [] h.MirrorRate = -100 -> FALSE
      [] OTHER -> draw < h.MirrorRate

\* ------------------------------------------------------------- log events

Event(level, msg, key, ps, ss, pv, sv, err) ==
    [level |-> level, msg |-> msg, key |-> key, primary_status |-> ps,
     shadow_status |-> ss, primary |-> pv, shadow |-> sv, error |-> err]

ErrorEvent(msg, err) == Event("error", msg, "", 0, 0, <<>>, <<>>, err)

\* ------------------------------------------------------------- comparator

\* Handler.compareStatus: the events it logs.
compareStatus(h, primaryStatus, shadowStatus) ==
    IF primaryStatus # shadowStatus
    THEN <<Event("info", "shadow_status_mismatch", "", primaryStatus, shadowStatus,
                 <<>>, <<>>, "")>>
    ELSE <<>>

\* Handler.compareHeaders from the i-th configured name on: the events it
\* logs, one for each name whose two value lists pass slices.Equal.
RECURSIVE compareHeadersFrom(_, _, _, _)
compareHeadersFrom(h, primaryH, shadowH, i) ==
    IF i > Len(h.CompareHeaders) THEN <<>>
    ELSE LET k == h.CompareHeaders[i]
             ph == HdrValues(primaryH, k)
             sh == HdrValues(shadowH, k)
         IN (IF ph = sh
             THEN <<Event("info", "shadow_header_mismatch", k, 0, 0, ph, sh, "")>>
             ELSE <<>>) \o compareHeadersFrom(h, primaryH, shadowH, i + 1)

compareHeaders(h, primaryH, shadowH) == compareHeadersFrom(h, primaryH, shadowH, 1)

\* The verdicts compareBody can reach: the jq verdict when CompareJQ is not
\* nil, byte equality otherwise.
bodyVerdicts(h, primaryBS, shadowBS) ==
    IF ~h.CompareJQNil
    THEN compareJSON(h, primaryBS, shadowBS)
    ELSE {IF primaryBS = shadowBS THEN "eq" ELSE "ne"}

\* What compareBody does on one verdict: it panics when compareJSON panicked
\* or when it increments a counter that Provision did not create; else it
\* increments one counter if a metrics name is set, and logs shadow_mismatch
\* on a mismatch unless NoLog is set.
bodyEffect(h, verdict, primaryBS, shadowBS) ==
    IF verdict = "panic" \/ (h.MetricsName # "" /\ ~h.counters)
    THEN [panic |-> TRUE, match |-> 0, mismatch |-> 0, logs |-> <<>>]
    ELSE [panic |-> FALSE,
          match |-> IF h.MetricsName # "" /\ verdict = "eq" THEN 1 ELSE 0,
          mismatch |-> IF h.MetricsName # "" /\ verdict = "ne" THEN 1 ELSE 0,
          logs |-> IF verdict = "ne" /\ ~h.NoLog
                   THEN <<Event("info", "shadow_mismatch", "", 0, 0,
                                primaryBS, shadowBS, "")>>
                   ELSE <<>>]

\* Handler.compareBody: the set of effects it can have.
compareBody(h, primaryBS, shadowBS) ==
    {bodyEffect(h, v, primaryBS, shadowBS) : v \in bodyVerdicts(h, primaryBS, shadowBS)}

\* ---------------------------------------------------------------- inputs

Paths == {"primary", "secondary"}

\* The decoded configurations a handler is provisioned from.  mirror_rate
\* is a percentage: 0 (the default) and the sentinel -100; secondary_timeout
\* is left empty.
RawConfigs ==
    [CompareStatus : BOOLEAN,
     CompareBody : BOOLEAN,
     CompareHeaders : {<<>>, <<"x">>},
     CompareJQNil : BOOLEAN,
     CompareJQ : {<<>>, <<".a">>, <<".b">>, <<".">>, <<".a", ".b">>},
     NoLog : BOOLEAN,
     MetricsName : {"", "m"},
     MirrorRate : {0, -100},
     Timeout : {""}]

\* The configurations that decode from JSON: a nil CompareJQ has no element.
Configs == {c \in RawConfigs : c.CompareJQNil => c.CompareJQ = <<>>}

\* The requests served by the dispatcher model: every combination of
\* compare_status, compare_body, metrics_name and mirror_rate on a request
\* without a body, and a request with a body when nothing is compared.  The
\* header and jq dimensions are exercised on the comparison goroutine alone
\* (CmpSpec).
ServeConfigs == {c \in Configs : c.CompareHeaders = <<>> /\ c.CompareJQNil /\ ~c.NoLog}
Scenarios ==
    {[raw |-> c, body |-> FALSE] : c \in ServeConfigs} \cup
    {[raw |-> c, body |-> TRUE] :
       c \in {d \in ServeConfigs : ~d.CompareStatus /\ ~d.CompareBody /\ d.MetricsName = ""}}

\* The draws of rand.Float64, in hundredths.
Draws == {0, 49, 50, 99}

RECURSIVE SeqsUpTo(_, _)
SeqsUpTo(S, n) ==
    IF n = 0 THEN {<<>>}
    ELSE SeqsUpTo(S, n - 1) \cup
         {Append(q, x) : q \in {r \in SeqsUpTo(S, n - 1) : Len(r) = n - 1}, x \in S}

\* What a handler may answer: a status, headers and a body.  The dispatcher
\* is run on a 200 answer with every body, and on a 500 answer and a
\* compressed answer with one body.
Statuses == {200, 500}
Compressed == [k \in HeaderNames |-> IF k = "X" THEN <<"v">> ELSE <<"gzip">>]
Responses ==
    [status : {200}, hdr : {NoHeaders}, body : SeqsUpTo({"a1", "a2"}, MaxBody)] \cup
    [status : Statuses, hdr : {NoHeaders, Compressed}, body : {<<"a1">>}]

\* The errors the handler of a path may return ("" is nil).
HandlerErrors(p) == {"", IF p = "primary" THEN "primary failed" ELSE "secondary failed"}

\* The request body: absent, or these bytes.
RequestBody == <<"a1", "a2">>

\* ----------------------------------------------------------- pooled buffers

\* The buffers the request allocates when the pool is empty, and the one the
\* other in-flight request allocates.
PrimaryBufId == 1
ShadowBufId == 2
PrBufId == 3
SrBufId == 4
OtherBufId == 5
BufIds == {PrimaryBufId, ShadowBufId, PrBufId, SrBufId, OtherBufId}
NoBuf == 0

\* A bytes.Buffer: its array mem, the read offset off and the length len;
\* src names who wrote the bytes it holds.
EmptyBuffer == [mem |-> <<>>, off |-> 0, len |-> 0, src |-> {}]

\* bytes.Buffer.Reset: the array is kept and reused.
BufReset(b) == [b EXCEPT !.off = 0, !.len = 0, !.src = {}]

\* bytes.Buffer.Write: data is stored in the array after the first len bytes.
BufWrite(b, data, who) ==
    [mem |-> SubSeq(b.mem, 1, b.len) \o data \o
             SubSeq(b.mem, b.len + Len(data) + 1, Len(b.mem)),
     off |-> b.off,
     len |-> b.len + Len(data),
     src |-> IF data = <<>> THEN b.src ELSE b.src \cup {who}]

\* bytes.Buffer.Bytes: the unread bytes.
BufBytes(b) == SubSeq(b.mem, b.off + 1, b.len)

\* ------------------------------------------------------------------ state

\* --------------------------------------------------- contexts and vars maps

\* shouldMirror did not call rand.Float64.
NoDraw == -1

\* A context: made once it exists; linked when it is done as soon as the
\* inbound request's context is; timed with its deadline; done holds Err()
\* of the context's own cancellation ("" while it is not cancelled).
NoContext == [made |-> FALSE, linked |-> FALSE, timed |-> FALSE, deadline |-> 0, done |-> ""]

\* r.Context() of the inbound request, and of every request derived from
\* it by WithValue or Clone.
InboundContext == [NoContext EXCEPT !.made = TRUE, !.linked = TRUE]

\* A derivation that keeps the parent's cancellation.
WithCancelKept(c) == c

\* context.WithoutCancel(c): not cancelled when c is, and without deadline.
WithoutCancel(c) == [c EXCEPT !.linked = FALSE, !.timed = FALSE, !.deadline = 0, !.done = ""]

\* context.WithTimeout(c, d) called at time t.
WithTimeout(c, t, d) ==
    [c EXCEPT !.timed = TRUE,
              !.deadline = IF c.timed /\ c.deadline < t + d THEN c.deadline ELSE t + d]

\* The CancelFunc of a context.
Cancel(c) == IF c.done = "" THEN [c EXCEPT !.done = "canceled"] ELSE c

\* ctx.Err() of a context c while the inbound context's Err() is reqErr.
Err(c, reqErr) ==
    IF c.done # "" THEN c.done
    ELSE IF c.linked THEN reqErr
    ELSE ""

\* The context requestProcessor runs a handler under, made at time t.
requestContext(hd, t) == WithTimeout(WithoutCancel(InboundContext), t, hd.timeout)

\* The vars maps: "r" is the map of the inbound request, "sr" the map made
\* for the cloned request.  A value is "" (absent), "init", or the path
\* whose handler wrote it.
VarKeys == {"k1", "k2"}
InboundVars ==
    [maps |-> [id \in {"r", "sr"} |-> [k \in VarKeys |-> IF id = "r" THEN "init" ELSE ""]],
     of |-> [p \in {"primary", "secondary"} |-> ""]]

\* A clone that hands the inbound request's map to the secondary request.
cloneRequestSharedVars(vm) == [vm EXCEPT !.of["secondary"] = "r"]

\* cloneRequest: maps.Clone of the vars map, carried by the cloned request.
cloneRequest(vm) ==
    [maps |-> [vm.maps EXCEPT !["sr"] = vm.maps["r"]],
     of |-> [vm.of EXCEPT !["secondary"] = "sr"]]

VARIABLES
    h,        \* the provisioned Handler
    hasBody,  \* whether the request carries a body (r.Body != nil)
    mirrored, \* whether shouldMirror accepted the request
    mainPc,   \* where ServeHTTP is: start, primary, afterPrimary, done, panic
    ret,      \* the error ServeHTTP returned ("" is nil)
    hs,       \* per path, the handler call: st, responded, err, seen, eof
    rec,      \* per path, the ResponseRecorder: wroteHeader, stream, statusCode, buf
    client,   \* the real response sink w
    nop,      \* the NopResponseWriter of the secondary path
    bufs,     \* the bytes.Buffers, by id
    pool,     \* the ids held by bufferPool
    dx,       \* the duplexed body: the source left to read, the two buffers
    pBytes,   \* the slice pBytes: the buffer it aliases and its length
    cmpPc,    \* where the comparison goroutine is: idle, wait, headers, status, done, panic
    log,      \* the events given to h.slogger, in order
    metrics,  \* the match and mismatch counters
    other,    \* the other in-flight request: the pooled buffer it uses
    drawn,    \* the value rand.Float64 returned to shouldMirror, if it was called
    now,      \* the clock, in units of ten seconds since the request arrived
    ctx,      \* the inbound request's context and the context each handler runs under
    varsMap   \* the caddyhttp vars maps, and the map the request of each path carries

vars == <<h, hasBody, mirrored, mainPc, ret, hs, rec, client, nop, bufs, pool, dx,
          pBytes, cmpPc, log, metrics, other, drawn, now, ctx, varsMap>>

\* A handler call: st is idle, run or ret; resp is what it answered once
\* responded is set; err is what it returned; seen and eof are what its
\* reads of the request body returned.
NoResponse == [status |-> 0, hdr |-> NoHeaders, body |-> <<>>]
NewHandlerCall ==
    [st |-> "idle", responded |-> FALSE, resp |-> NoResponse, err |-> "",
     seen |-> <<>>, eof |-> FALSE]

\* caddyhttp.NewResponseRecorder(w, buf, h.shouldBuffer)
NewResponseRecorder(buf) ==
    [wroteHeader |-> FALSE, stream |-> FALSE, statusCode |-> 0, buf |-> buf]

\* ResponseRecorder.Buffered
Buffered(rr) == ~rr.stream

NewSink == [wroteHeader |-> FALSE, status |-> 0, hdr |-> NoHeaders, body |-> <<>>, src |-> {}]

InitWith(handler, body) ==
    /\ h = handler
    /\ hasBody = body
    /\ mirrored = FALSE
    /\ mainPc = "start"
    /\ ret = ""
    /\ hs = [p \in Paths |-> NewHandlerCall]
    /\ rec = [p \in Paths |-> NewResponseRecorder(NoBuf)]
    /\ client = NewSink
    /\ nop = [status |-> 0, hdr |-> NoHeaders]
    /\ bufs = [b \in BufIds |-> EmptyBuffer]
    /\ pool = {}
    /\ dx = [src |-> IF body THEN RequestBody ELSE <<>>, buf |-> [p \in Paths |-> NoBuf]]
    /\ pBytes = [buf |-> NoBuf, n |-> 0]
    /\ cmpPc = "idle"
    /\ log = <<>>
    /\ metrics = [match |-> 0, mismatch |-> 0]
    /\ other = [buf |-> NoBuf, owns |-> FALSE, writes |-> 0]
    /\ drawn = NoDraw
    /\ now = 0
    /\ ctx = [request |-> "", primary |-> NoContext, secondary |-> NoContext]
    /\ varsMap = InboundVars

Init == \E sc \in Scenarios : InitWith(Provision(sc.raw), sc.body)

\* ------------------------------------------------------------ the sinks

\* http.ResponseWriter.WriteHeader on the real sink: the first call sets the
\* status, later calls are ignored.
SinkWriteHeader(w, status) ==
    IF w.wroteHeader THEN w ELSE [w EXCEPT !.wroteHeader = TRUE, !.status = status]

\* http.ResponseWriter.Write on the real sink: the status defaults to 200.
SinkWrite(w, data, who) ==
    [SinkWriteHeader(w, 200) EXCEPT !.body = @ \o data,
                                    !.src = IF data = <<>> THEN @ ELSE @ \cup who]

\* ----------------------------------------------------------- the dispatcher

\* The buffers the request holds: the two capture buffers and the two
\* buffers of the duplexed body.
HeldBufs == ({rec[p].buf : p \in Paths} \cup {dx.buf[p] : p \in Paths}) \ {NoBuf}

\* The buffers ServeHTTP asks getBuf for.
NeededBufs ==
    (IF shouldCompare(h) THEN {PrimaryBufId, ShadowBufId} ELSE {}) \cup
    (IF hasBody THEN {PrBufId, SrBufId} ELSE {})

\* getBuf for every needed buffer: bufferPool.Get hands out a pooled buffer
\* or a new one, and the buffer is Reset.
GetBufs(f) ==
    /\ \A b \in DOMAIN f : f[b] = b \/ f[b] \in pool
    /\ \A b, c \in DOMAIN f : f[b] = f[c] => b = c
    /\ pool' = pool \ {f[b] : b \in DOMAIN f}
    /\ bufs' = [b \in BufIds |->
                  IF \E c \in DOMAIN f : f[c] = b THEN BufReset(bufs[b]) ELSE bufs[b]]

BufFor(f, b) == IF b \in DOMAIN f THEN f[b] ELSE NoBuf

\* ServeHTTP up to the call of the primary handler.  When shouldMirror
\* declines, the primary handler is called with the sink and the request as
\* they are.  Otherwise the buffers are taken from the pool, the recorders
\* are built, the body is duplexed and the secondary goroutine is started.
ServeStart ==
    /\ mainPc = "start"
    /\ \E d \in Draws :
         /\ drawn' = IF h.MirrorRate \in {100, 0, -100} THEN NoDraw ELSE d
         /\ IF ~shouldMirror(h, d)
            THEN /\ mirrored' = FALSE
                 /\ hs' = [hs EXCEPT !["primary"].st = "run"]
                 /\ ctx' = [ctx EXCEPT !.primary = InboundContext]
                 /\ varsMap' = [varsMap EXCEPT !.of["primary"] = "r"]
                 /\ UNCHANGED <<rec, dx, bufs, pool>>
            ELSE /\ mirrored' = TRUE
                 /\ hs' = [p \in Paths |-> [hs[p] EXCEPT !.st = "run"]]
                 /\ ctx' = [ctx EXCEPT
                              !.primary = requestContext(h, now),
                              !.secondary = requestContext(h, now)]
                 /\ varsMap' = [cloneRequest(varsMap) EXCEPT !.of["primary"] = "r"]
                 /\ \E f \in [NeededBufs -> BufIds] :
                      /\ GetBufs(f)
                      /\ rec' = [p \in Paths |->
                                   NewResponseRecorder(
                                     BufFor(f, IF p = "primary" THEN PrimaryBufId
                                                                ELSE ShadowBufId))]
                      /\ dx' = [dx EXCEPT !.buf =
                                  [p \in Paths |->
                                     BufFor(f, IF p = "primary" THEN PrBufId ELSE SrBufId)]]
    /\ mainPc' = "primary"
    /\ UNCHANGED <<now, h, hasBody, ret, client, nop, pBytes, cmpPc, log, metrics, other>>

\* One Read of the request body by the handler of a path.  Without
\* mirroring the handler reads the source itself.  With mirroring it reads
\* its stream of the duplexed body: when its own buffer holds no unread
\* byte the source is advanced and the bytes read are appended to both
\* buffers; the read is then served from its own buffer, and end-of-stream
\* is reported once the buffer is drained and the source is exhausted.
HandlerRead(p) ==
    /\ hs[p].st = "run"
    /\ hasBody
    /\ ~hs[p].eof
    /\ IF ~mirrored
       THEN /\ IF dx.src = <<>>
               THEN /\ hs' = [hs EXCEPT ![p].eof = TRUE]
                    /\ dx' = dx
               ELSE /\ hs' = [hs EXCEPT ![p].seen = Append(@, Head(dx.src))]
                    /\ dx' = [dx EXCEPT !.src = Tail(@)]
            /\ bufs' = bufs
       ELSE LET own == dx.buf[p]
                fill == bufs[own].off = bufs[own].len /\ dx.src # <<>>
                filled == IF fill
                          THEN [b \in BufIds |->
                                  IF b \in {dx.buf[q] : q \in Paths}
                                  THEN BufWrite(bufs[b], <<Head(dx.src)>>, "request")
                                  ELSE bufs[b]]
                          ELSE bufs
            IN /\ dx' = IF fill THEN [dx EXCEPT !.src = Tail(@)] ELSE dx
               /\ IF filled[own].off = filled[own].len
                  THEN /\ hs' = [hs EXCEPT ![p].eof = TRUE]
                       /\ bufs' = filled
                  ELSE /\ hs' = [hs EXCEPT ![p].seen =
                                   Append(@, filled[own].mem[filled[own].off + 1])]
                       /\ bufs' = [filled EXCEPT ![own].off = @ + 1]
    /\ UNCHANGED <<drawn, now, ctx, varsMap, h, hasBody, mirrored, mainPc, ret, rec, client,
                   nop, pool, pBytes,
                   cmpPc, log, metrics, other>>

\* ResponseRecorder.WriteHeader followed by Write, for a response whose
\* headers the handler has set on the sink of its path.  The first
\* WriteHeader decides, with shouldBuffer, between buffering and streaming;
\* a streamed response goes to the underlying sink, a buffered one to the
\* recorder's buffer.
Record(hd, rr, resp) ==
    [rr EXCEPT !.wroteHeader = TRUE,
               !.statusCode = resp.status,
               !.stream = ~shouldBuffer(hd, resp.status, resp.hdr)]

\* The handler of a path answers: it sets its headers, writes the status
\* and writes the body.  The primary path's recorder wraps the real sink,
\* the secondary path's recorder wraps the NopResponseWriter, which keeps
\* the headers and the status and drops the body.
Respond(p, resp) ==
    /\ hs[p].st = "run"
    /\ ~hs[p].responded
    /\ hs' = [hs EXCEPT ![p].responded = TRUE, ![p].resp = resp]
    /\ IF ~mirrored
       THEN /\ client' = SinkWrite(SinkWriteHeader([client EXCEPT !.hdr = resp.hdr],
                                                   resp.status),
                                   resp.body, {"primary"})
            /\ UNCHANGED <<rec, nop, bufs>>
       ELSE /\ rec' = [rec EXCEPT ![p] = Record(h, @, resp)]
            /\ IF p = "primary"
               THEN /\ client' =
                         IF Buffered(rec'[p])
                         THEN [client EXCEPT !.hdr = resp.hdr]
                         ELSE SinkWrite(SinkWriteHeader([client EXCEPT !.hdr = resp.hdr],
                                                        resp.status),
                                        resp.body, {"primary"})
                    /\ nop' = nop
               ELSE /\ nop' = [hdr |-> resp.hdr,
                               status |-> IF Buffered(rec'[p]) THEN nop.status
                                                               ELSE resp.status]
                    /\ client' = client
            /\ bufs' = IF Buffered(rec'[p])
                       THEN [bufs EXCEPT ![rec[p].buf] = BufWrite(@, resp.body, p)]
                       ELSE bufs
    /\ UNCHANGED <<drawn, now, ctx, varsMap, h, hasBody, mirrored, mainPc, ret, pool, dx,
                   pBytes, cmpPc, log,
                   metrics, other>>

HandlerRespond(p) == \E resp \in Responses : Respond(p, resp)

\* The primary handler returns err.  Under mirroring it runs inside
\* requestProcessor, which logs the error; without mirroring ServeHTTP
\* returns what the handler returned.
PrimaryReturn ==
    /\ mainPc = "primary"
    /\ hs["primary"].st = "run"
    /\ \E err \in HandlerErrors("primary") :
         /\ hs' = [hs EXCEPT !["primary"].st = "ret", !["primary"].err = err]
         /\ IF mirrored
            THEN /\ mainPc' = "afterPrimary"
                 /\ ret' = ret
                 /\ ctx' = [ctx EXCEPT !.primary = Cancel(@)]
                 /\ log' = IF err # ""
                           THEN Append(log, ErrorEvent("primary_handler_error", err))
                           ELSE log
            ELSE /\ mainPc' = "done"
                 /\ ret' = err
                 /\ log' = log
                 /\ ctx' = ctx
    /\ UNCHANGED <<drawn, now, varsMap, h, hasBody, mirrored, rec, client, nop, bufs, pool, dx,
                   pBytes,
                   cmpPc, metrics, other>>

\* A secondary goroutine that stores its error in ServeHTTP's named result.
SecondaryReturnSetsResult ==
    /\ hs["secondary"].st = "run"
    /\ \E err \in HandlerErrors("secondary") :
         /\ hs' = [hs EXCEPT !["secondary"].st = "ret", !["secondary"].err = err]
         /\ ret' = IF err # "" THEN err ELSE ret
         /\ log' = IF err # ""
                   THEN log \o <<ErrorEvent("secondary_handler_error", err),
                                 ErrorEvent("secondary_handler_error", err)>>
                   ELSE log
    /\ ctx' = [ctx EXCEPT !.secondary = Cancel(@)]
    /\ UNCHANGED <<drawn, now, varsMap, h, hasBody, mirrored, mainPc, rec, client, nop, bufs,
                   pool, dx,
                   pBytes, cmpPc, metrics, other>>

\* The secondary goroutine ends: the handler returns err inside
\* requestProcessor, which logs the error, the goroutine logs it too, and
\* wg.Done runs.
SecondaryReturn ==
    /\ hs["secondary"].st = "run"
    /\ \E err \in HandlerErrors("secondary") :
         /\ hs' = [hs EXCEPT !["secondary"].st = "ret", !["secondary"].err = err]
         /\ log' = IF err # ""
                   THEN log \o <<ErrorEvent("secondary_handler_error", err),
                                 ErrorEvent("secondary_handler_error", err)>>
                   ELSE log
    /\ ctx' = [ctx EXCEPT !.secondary = Cancel(@)]
    /\ UNCHANGED <<drawn, now, varsMap, h, hasBody, mirrored, mainPc, ret, rec, client, nop,
                   bufs, pool, dx,
                   pBytes, cmpPc, metrics, other>>

\* The errors w.Write may return ("" is nil).
WriteErrors == {"", "write failed"}

\* A ServeHTTP that drops the primary handler's error.
ReturnPrimaryErrorDropped ==
    /\ hs["primary"].err # ""
    /\ ret' = ""
    /\ mainPc' = "done"
    /\ UNCHANGED <<client, pBytes, cmpPc>>

\* ServeHTTP returns the primary handler's error as it is.
ReturnPrimaryError ==
    /\ hs["primary"].err # ""
    /\ ret' = hs["primary"].err
    /\ mainPc' = "done"
    /\ UNCHANGED <<client, pBytes, cmpPc>>

\* pRecorder.Buffer().Bytes() on a recorder that was given no buffer: a nil
\* pointer dereference, which ends ServeHTTP with a panic.
NilBufferPanic ==
    /\ hs["primary"].err = ""
    /\ Buffered(rec["primary"])
    /\ rec["primary"].buf = NoBuf
    /\ mainPc' = "panic"
    /\ UNCHANGED <<ret, client, pBytes, cmpPc>>

\* A buffered primary response is written to the real sink, the comparison
\* goroutine is started if comparison is configured, and ServeHTTP returns
\* the error of the write.
FlushPrimary ==
    /\ hs["primary"].err = ""
    /\ LET rr == rec["primary"]
       IN /\ ~(Buffered(rr) /\ rr.buf = NoBuf)
          /\ IF Buffered(rr)
             THEN /\ pBytes' = [buf |-> rr.buf, n |-> bufs[rr.buf].len]
                  /\ client' = SinkWrite(SinkWriteHeader(client, rr.statusCode),
                                         BufBytes(bufs[rr.buf]), bufs[rr.buf].src)
                  /\ \E werr \in WriteErrors : ret' = werr
             ELSE /\ UNCHANGED <<pBytes, client>>
                  /\ ret' = ""
    /\ cmpPc' = IF shouldCompare(h) THEN "wait" ELSE cmpPc
    /\ mainPc' = "done"

\* ServeHTTP after the primary handler returned, to its return: a primary
\* error is returned at once, otherwise the primary response is flushed.
\* The deferred putBufs run in every case.
ServeReturn ==
    /\ mainPc = "afterPrimary"
    /\ pool' = pool \cup HeldBufs
    /\ \/ ReturnPrimaryError
       \/ NilBufferPanic
       \/ FlushPrimary
    /\ UNCHANGED <<drawn, now, ctx, varsMap, h, hasBody, mirrored, hs, rec, nop, bufs, dx, log,
                   metrics, other>>

\* The bytes the slice pBytes shows: the first n bytes of the array of the
\* buffer it was taken from, or none for a nil slice.
ViewBytes(v) == IF v.buf = NoBuf THEN <<>> ELSE SubSeq(bufs[v.buf].mem, 1, v.n)

\* The comparison goroutine after wg.Wait: compareBody on the two captured
\* bodies when the secondary response was buffered.
\* A comparison goroutine that does not wait for the secondary goroutine.
CmpBodyNoWait ==
    /\ cmpPc = "wait"
    /\ IF Buffered(rec["secondary"])
       THEN \E e \in compareBody(h, ViewBytes(pBytes),
                                 BufBytes(bufs[rec["secondary"].buf])) :
              /\ cmpPc' = IF e.panic THEN "panic" ELSE "headers"
              /\ log' = log \o e.logs
              /\ metrics' = [match |-> metrics.match + e.match,
                             mismatch |-> metrics.mismatch + e.mismatch]
       ELSE /\ cmpPc' = "headers"
            /\ UNCHANGED <<log, metrics>>
    /\ UNCHANGED <<drawn, now, ctx, varsMap, h, hasBody, mirrored, mainPc, ret, hs, rec,
                   client, nop, bufs, pool, dx, pBytes, other>>

CmpBody ==
    /\ cmpPc = "wait"
    /\ hs["secondary"].st = "ret"
    /\ IF Buffered(rec["secondary"])
       THEN \E e \in compareBody(h, ViewBytes(pBytes),
                                 BufBytes(bufs[rec["secondary"].buf])) :
              /\ cmpPc' = IF e.panic THEN "panic" ELSE "headers"
              /\ log' = log \o e.logs
              /\ metrics' = [match |-> metrics.match + e.match,
                             mismatch |-> metrics.mismatch + e.mismatch]
       ELSE /\ cmpPc' = "headers"
            /\ UNCHANGED <<log, metrics>>
    /\ UNCHANGED <<drawn, now, ctx, varsMap, h, hasBody, mirrored, mainPc, ret, hs, rec,
                   client, nop, bufs, pool,
                   dx, pBytes, other>>

\* The comparison goroutine: compareHeaders on the headers of the two sinks.
CmpHeaders ==
    /\ cmpPc = "headers"
    /\ log' = log \o compareHeaders(h, client.hdr, nop.hdr)
    /\ cmpPc' = "status"
    /\ UNCHANGED <<drawn, now, ctx, varsMap, h, hasBody, mirrored, mainPc, ret, hs, rec,
                   client, nop, bufs, pool,
                   dx, pBytes, metrics, other>>

\* The comparison goroutine: compareStatus on the two recorded statuses.
CmpStatus ==
    /\ cmpPc = "status"
    /\ log' = log \o compareStatus(h, rec["primary"].statusCode,
                                   rec["secondary"].statusCode)
    /\ cmpPc' = "done"
    /\ UNCHANGED <<drawn, now, ctx, varsMap, h, hasBody, mirrored, mainPc, ret, hs, rec,
                   client, nop, bufs, pool,
                   dx, pBytes, metrics, other>>

\* ----------------------------------------------- the other in-flight request

\* A panic of the comparison goroutine is not recovered: the process ends,
\* and with it every request it serves.
Crashed == cmpPc = "panic"

\* What the other request writes into a buffer it uses.
OtherData == <<"z">>

\* getBuf by another request served by the same handler: it takes a pooled
\* buffer, or a new one when it does not, and resets it.
OtherGetBuf ==
    /\ ~Crashed
    /\ other.buf = NoBuf
    /\ \E b \in pool \cup (IF mainPc = "start" THEN {OtherBufId} ELSE {}) :
         /\ other' = [other EXCEPT !.buf = b, !.owns = TRUE]
         /\ pool' = pool \ {b}
         /\ bufs' = [bufs EXCEPT ![b] = BufReset(@)]
    /\ UNCHANGED <<drawn, now, ctx, varsMap, h, hasBody, mirrored, mainPc, ret, hs, rec,
                   client, nop, dx, pBytes,
                   cmpPc, log, metrics>>

\* A write of the other request's secondary handler into its capture buffer.
OtherWrite ==
    /\ ~Crashed
    /\ other.buf \in HeldBufs
    /\ other.writes < MaxOtherWrites
    /\ other' = [other EXCEPT !.writes = @ + 1]
    /\ bufs' = [bufs EXCEPT ![other.buf] = BufWrite(@, OtherData, "other")]
    /\ UNCHANGED <<drawn, now, ctx, varsMap, h, hasBody, mirrored, mainPc, ret, hs, rec,
                   client, nop, pool, dx,
                   pBytes, cmpPc, log, metrics>>

\* The deferred putBuf of the other request's ServeHTTP, which returns
\* while its secondary goroutine is still using the buffer.
OtherPutBuf ==
    /\ mainPc = "start"
    /\ other.owns
    /\ other' = [other EXCEPT !.owns = FALSE]
    /\ pool' = pool \cup {other.buf}
    /\ UNCHANGED <<drawn, now, ctx, varsMap, h, hasBody, mirrored, mainPc, ret, hs, rec,
                   client, nop, bufs, dx,
                   pBytes, cmpPc, log, metrics>>

\* ------------------------------------------------------------ specification

Next ==
    \/ ServeStart
    \/ \E p \in Paths : HandlerRead(p)
    \/ \E p \in Paths : HandlerRespond(p)
    \/ PrimaryReturn
    \/ SecondaryReturn
    \/ ServeReturn
    \/ CmpBody
    \/ CmpHeaders
    \/ CmpStatus
    \/ OtherGetBuf
    \/ OtherWrite
    \/ OtherPutBuf

Spec == Init /\ [][Next]_vars

\* FairSpec: the mirrored requests with comparison configured, under a
\* scheduler that runs every goroutine that can run: ServeHTTP goes on to
\* its return once the primary handler has returned, and the comparison
\* goroutine goes on once wg.Wait lets it.  Nothing makes a handler return.
\* These requests carry no body, so no handler reads one.
FairInit ==
    \E sc \in Scenarios :
        /\ sc.raw.MirrorRate = 0
        /\ shouldCompare(Provision(sc.raw))
        /\ InitWith(Provision(sc.raw), sc.body)

FairNext ==
    \/ ServeStart
    \/ \E p \in Paths : HandlerRespond(p)
    \/ PrimaryReturn
    \/ SecondaryReturn
    \/ ServeReturn
    \/ CmpBody
    \/ CmpHeaders
    \/ CmpStatus
    \/ OtherGetBuf
    \/ OtherWrite
    \/ OtherPutBuf

FairSpec ==
    /\ FairInit
    /\ [][FairNext]_vars
    /\ WF_vars(ServeReturn)
    /\ WF_vars(CmpBody)
    /\ WF_vars(CmpHeaders)
    /\ WF_vars(CmpStatus)

\* ------------------------------------------------ the comparison goroutine

\* The captured responses the comparison goroutine is checked on: a 200
\* answer without headers with every body, and every status and header set
\* with one body.  The bodies <<"a1", "b">> and <<"a1", "b", "c">> are
\* {"a":1,"b":[1,2,3]} and {"a":1,"b":[1,2,3],"c":"x"}.
CmpHdrs ==
    {[k \in HeaderNames |-> IF k = "X" THEN x ELSE e] :
       x \in {<<>>, <<"v">>, <<"w", "v">>}, e \in {<<>>}} \cup {Compressed}
CmpBodies ==
    {<<>>, <<"z">>, <<"a1">>, <<"a2">>, <<"b">>, <<"a1", "b">>, <<"a2", "b">>,
     <<"a1", "b", "c">>}
CmpResponses ==
    [status : {200}, hdr : {NoHeaders}, body : CmpBodies] \cup
    [status : Statuses, hdr : CmpHdrs, body : {<<"a1">>}]

\* The configurations under which ServeHTTP starts the comparison goroutine.
CmpConfigs == {c \in Configs : c.MirrorRate = 0 /\ shouldCompare(Provision(c))}

\* The state in which the comparison goroutine passes wg.Wait: the request
\* had no body, the handlers answered rp and rs and returned nil, and
\* ServeHTTP has flushed the primary response and returned.
CmpInitWith(hd, rp, rs) ==
    LET rrp == Record(hd, NewResponseRecorder(PrimaryBufId), rp)
        rrs == Record(hd, NewResponseRecorder(ShadowBufId), rs)
        call(r) == [NewHandlerCall EXCEPT !.st = "ret", !.responded = TRUE, !.resp = r]
    IN /\ h = hd
       /\ hasBody = FALSE
       /\ mirrored = TRUE
       /\ mainPc = "done"
       /\ ret = ""
       /\ hs = [p \in Paths |-> IF p = "primary" THEN call(rp) ELSE call(rs)]
       /\ rec = [p \in Paths |-> IF p = "primary" THEN rrp ELSE rrs]
       /\ client = SinkWrite(SinkWriteHeader([NewSink EXCEPT !.hdr = rp.hdr], rp.status),
                             rp.body, {"primary"})
       /\ nop = [hdr |-> rs.hdr, status |-> IF Buffered(rrs) THEN 0 ELSE rs.status]
       /\ bufs = [b \in BufIds |->
                   IF b = PrimaryBufId /\ Buffered(rrp)
                   THEN BufWrite(EmptyBuffer, rp.body, "primary")
                   ELSE IF b = ShadowBufId /\ Buffered(rrs)
                   THEN BufWrite(EmptyBuffer, rs.body, "secondary")
                   ELSE EmptyBuffer]
       /\ pool = {PrimaryBufId, ShadowBufId}
       /\ dx = [src |-> <<>>, buf |-> [p \in Paths |-> NoBuf]]
       /\ pBytes = IF Buffered(rrp) THEN [buf |-> PrimaryBufId, n |-> Len(rp.body)]
                                    ELSE [buf |-> NoBuf, n |-> 0]
       /\ cmpPc = "wait"
       /\ log = <<>>
       /\ metrics = [match |-> 0, mismatch |-> 0]
       /\ other = [buf |-> NoBuf, owns |-> FALSE, writes |-> 0]
       /\ drawn = NoDraw
       /\ now = 0
       /\ ctx = [request |-> "",
                 primary |-> Cancel(requestContext(hd, 0)),
                 secondary |-> Cancel(requestContext(hd, 0))]
       /\ varsMap = [cloneRequest(InboundVars) EXCEPT !.of["primary"] = "r"]

CmpInit == \E c \in CmpConfigs, rp \in CmpResponses, rs \in CmpResponses :
              CmpInitWith(Provision(c), rp, rs)

CmpNext ==
    \/ CmpBody
    \/ CmpHeaders
    \/ CmpStatus

CmpSpec == CmpInit /\ [][CmpNext]_vars

\* ------------------------------------------------- the response recorders

\* The answers the recorders are checked on: statuses around the bounds of
\* the 2xx range, with and without a Content-Encoding header.
RecStatuses == {199, 200, 204, 299, 300, 500}
RecHdrs ==
    {NoHeaders, Compressed, [k \in HeaderNames |-> IF k = "X" THEN <<"v">> ELSE <<>>]}
RecResponses == [status : RecStatuses, hdr : RecHdrs, body : {<<"a1">>}]

\* Every configuration, mirroring every request.
RecConfigs == {c \in Configs : c.MirrorRate = 0}

RecInit == \E c \in RecConfigs : InitWith(Provision(c), FALSE)

HandlerRespondAny(p) == \E resp \in RecResponses : Respond(p, resp)

RecNext ==
    \/ ServeStart
    \/ \E p \in Paths : HandlerRespondAny(p)

RecSpec == RecInit /\ [][RecNext]_vars

\* ------------------------------------- contexts, the clock and the vars maps

\* The clock is followed up to MaxTime units of ten seconds.
MaxTime == 4

\* The inbound request's context is cancelled: the client went away, or the
\* server ended the request.
RequestCancel ==
    /\ ctx.request = ""
    /\ ctx' = [ctx EXCEPT !.request = "canceled"]
    /\ UNCHANGED <<drawn, now, varsMap, h, hasBody, mirrored, mainPc, ret, hs, rec, client,
                   nop, bufs, pool, dx, pBytes, cmpPc, log, metrics, other>>

\* The timer of the context of a path fires at or after its deadline.
DeadlineExceeded(p) ==
    /\ ctx[p].made
    /\ ctx[p].timed
    /\ ctx[p].done = ""
    /\ now >= ctx[p].deadline
    /\ ctx' = [ctx EXCEPT ![p].done = "deadline exceeded"]
    /\ UNCHANGED <<drawn, now, varsMap, h, hasBody, mirrored, mainPc, ret, hs, rec, client,
                   nop, bufs, pool, dx, pBytes, cmpPc, log, metrics, other>>

\* Ten seconds pass; the clock starts when ServeHTTP is entered.
Tick ==
    /\ mainPc # "start"
    /\ now < MaxTime
    /\ now' = now + 1
    /\ UNCHANGED <<drawn, ctx, varsMap, h, hasBody, mirrored, mainPc, ret, hs, rec, client,
                   nop, bufs, pool, dx, pBytes, cmpPc, log, metrics, other>>

\* The handler of a path sets a variable in the vars map its request
\* carries.
HandlerSetVar(p) ==
    /\ hs[p].st = "run"
    /\ \E k \in VarKeys :
         /\ varsMap.maps[varsMap.of[p]][k] # p
         /\ varsMap' = [varsMap EXCEPT !.maps[varsMap.of[p]][k] = p]
    /\ UNCHANGED <<drawn, now, ctx, h, hasBody, mirrored, mainPc, ret, hs, rec, client,
                   nop, bufs, pool, dx, pBytes, cmpPc, log, metrics, other>>

\* EnvSpec: a request without comparison, mirrored or not, with the default
\* timeout or "10s", while the clock runs, contexts end and the handlers
\* set variables.
EnvConfigs ==
    {[c EXCEPT !.Timeout = t] :
       c \in {d \in ServeConfigs : ~d.CompareStatus /\ ~d.CompareBody /\ d.MetricsName = ""},
       t \in {"", "10s"}}

EnvInit == \E c \in EnvConfigs : InitWith(Provision(c), FALSE)

\* The handler of a path answers 200 with a one-chunk body.
HandlerRespondOk(p) == Respond(p, [status |-> 200, hdr |-> NoHeaders, body |-> <<"a1">>])

EnvNext ==
    \/ ServeStart
    \/ \E p \in Paths : HandlerRespondOk(p)
    \/ PrimaryReturn
    \/ SecondaryReturn
    \/ ServeReturn
    \/ RequestCancel
    \/ \E p \in Paths : DeadlineExceeded(p)
    \/ Tick
    \/ \E p \in Paths : HandlerSetVar(p)

EnvSpec == EnvInit /\ [][EnvNext]_vars

\* ------------------------------------------------ the sampling decision alone

\* SampleSpec: the sampling decision of ServeHTTP over the configurable
\* rates: the default 0, the sentinel -100, another negative rate, and
\* percentages at, between and beyond the ends of the range.
SampleRates == {0, -100, -1, 1, 50, 99, 100, 150}
SampleConfigs == {[c EXCEPT !.MirrorRate = r] : c \in ServeConfigs, r \in SampleRates}
SampleInit == \E c \in SampleConfigs : InitWith(Provision(c), FALSE)
SampleNext == ServeStart
SampleSpec == SampleInit /\ [][SampleNext]_vars

\* ------------------------------------------------------------- properties

\* The number of logged events with the message msg.
CountMsg(msg) == Len(SelectSeq(log, LAMBDA e : e.msg = msg))

\* The info-level events logged, in order.
InfoLog == SelectSeq(log, LAMBDA e : e.level = "info")

\* C1: for a mirrored request, once the primary handler has returned nil
\* ServeHTTP can return at once, whatever the secondary handler does, and it
\* does return, with the primary status on the client sink.
C1_ReturnsAfterPrimary ==
    (mirrored /\ hs["primary"].st = "ret" /\ hs["primary"].err = "") =>
        \/ mainPc = "afterPrimary" /\ ENABLED ServeReturn
        \/ /\ mainPc = "done"
           /\ hs["primary"].responded =>
                 client.wroteHeader /\ client.status = hs["primary"].resp.status

\* C2: when a mirrored request's primary handler returned nil, what
\* ServeHTTP returns is nil or the error of the write to the client sink,
\* never the secondary handler's error, whatever the secondary handler and
\* the comparison goroutine did.
C2_SecondaryErrorNotReturned ==
    /\ ret \notin HandlerErrors("secondary") \ {""}
    /\ (mirrored /\ mainPc = "done" /\ hs["primary"].err = "") => ret \in WriteErrors

C2_Witness ==
    /\ mirrored
    /\ mainPc = "done"
    /\ hs["primary"].err = ""
    /\ hs["secondary"].st = "ret"
    /\ hs["secondary"].err # ""
    /\ cmpPc \in {"done", "panic"}

\* C3: when the primary handler of a mirrored request returns an error,
\* ServeHTTP can return at once and returns that error unchanged; the
\* secondary handler has been invoked, keeps running until it returns by
\* itself, and its error is logged and never returned.
C3_PrimaryErrorReturned ==
    (mirrored /\ hs["primary"].st = "ret" /\ hs["primary"].err # "") =>
        /\ mainPc = "afterPrimary" => ENABLED ServeReturn
        /\ mainPc \in {"afterPrimary", "done"}
        /\ mainPc = "done" => ret = hs["primary"].err
        /\ hs["secondary"].st \in {"run", "ret"}
        /\ hs["secondary"].st = "run" => ENABLED SecondaryReturn
        /\ (hs["secondary"].st = "ret" /\ hs["secondary"].err # "") =>
              CountMsg("secondary_handler_error") > 0

C3_Witness ==
    /\ mirrored
    /\ mainPc = "done"
    /\ hs["primary"].err # ""
    /\ ret = hs["primary"].err
    /\ hs["secondary"].st = "run"
    /\ ~hs["secondary"].responded

C5_NoMirrorPassThrough ==
    (h.MirrorRate = -100 /\ mainPc # "start") =>
        /\ ~mirrored
        /\ hs["secondary"] = NewHandlerCall
        /\ rec = [p \in Paths |-> NewResponseRecorder(NoBuf)]
        /\ HeldBufs = {}
        /\ nop = [status |-> 0, hdr |-> NoHeaders]
        /\ cmpPc = "idle"
        /\ log = <<>>
        /\ metrics = [match |-> 0, mismatch |-> 0]
        /\ mainPc \in {"primary", "done"}
        /\ mainPc = "done" => ret = hs["primary"].err
        /\ client = IF hs["primary"].responded
                    THEN [wroteHeader |-> TRUE,
                          status |-> hs["primary"].resp.status,
                          hdr |-> hs["primary"].resp.hdr,
                          body |-> hs["primary"].resp.body,
                          src |-> IF hs["primary"].resp.body = <<>> THEN {}
                                                                    ELSE {"primary"}]
                    ELSE NewSink
        /\ hasBody => hs["primary"].seen \o dx.src = RequestBody

C5_Witness ==
    /\ h.MirrorRate = -100
    /\ mainPc = "done"
    /\ hs["primary"].responded
    /\ hs["primary"].resp.body # <<>>
    /\ ret = "primary failed"

\* C6: every byte the client sink has received was written by the primary
\* handler of this request.
C6_ClientOnlyPrimary == client.src \subseteq {"primary"}

\* C7: when the two captured responses are identical, the comparison logs
\* no mismatch event of any kind and does not count a mismatch.
C7_IdenticalResponsesMatch ==
    hs["primary"].resp = hs["secondary"].resp =>
        /\ InfoLog = <<>>
        /\ metrics.mismatch = 0

\* C8: the comparison logs shadow_status_mismatch exactly once when
\* compare_status is enabled and the two statuses differ, and never
\* otherwise.
C8_StatusEventIffEnabled ==
    cmpPc = "done" =>
        CountMsg("shadow_status_mismatch") =
            IF h.CompareStatus /\ rec["primary"].statusCode # rec["secondary"].statusCode
            THEN 1 ELSE 0

\* C9: for each configured header name, the comparison logs a
\* shadow_header_mismatch event for that name if and only if the two ordered
\* value lists differ.
C9_HeaderEventIffDiffer ==
    cmpPc \in {"status", "done"} =>
        \A i \in 1..Len(h.CompareHeaders) :
            LET k == h.CompareHeaders[i]
            IN (\E j \in 1..Len(log) :
                   log[j].msg = "shadow_header_mismatch" /\ log[j].key = k)
               <=> HdrValues(client.hdr, k) # HdrValues(nop.hdr, k)

\* C10: with compare_body enabled and logging on, when both handlers
\* answered 200 without headers and with different bodies, the finished
\* comparison has logged exactly one info event: shadow_mismatch with the
\* two bodies as the handlers wrote them.
C10_OneBodyMismatchEvent ==
    (/\ cmpPc = "done"
     /\ h.CompareBody /\ ~h.NoLog /\ h.CompareJQNil
     /\ \A p \in Paths : /\ hs[p].responded
                          /\ hs[p].resp.status = 200
                          /\ hs[p].resp.hdr = NoHeaders
     /\ hs["primary"].resp.body # hs["secondary"].resp.body)
    => InfoLog = <<Event("info", "shadow_mismatch", "", 0, 0,
                         hs["primary"].resp.body, hs["secondary"].resp.body, "")>>

\* The two bodies compareBody is given.
PrimaryBS == ViewBytes(pBytes)
ShadowBS == BufBytes(bufs[rec["secondary"].buf])

\* Body comparison is enabled: compare_body, or at least one jq query.
BodyComparisonEnabled == h.CompareBody \/ Len(h.compareJQ) > 0

\* C11: when body comparison is enabled and a metrics name is set, a
\* mirrored request whose comparison has finished has incremented exactly
\* one of the two counters, exactly once, whatever the two responses were.
C11_OneCounterPerRequest ==
    (cmpPc = "done" /\ BodyComparisonEnabled /\ h.MetricsName # "") =>
        metrics.match + metrics.mismatch = 1

\* The verdict extraction mode is to reach: for every configured query the
\* two result sequences are equal, position by position, with objects
\* equal as key/value sets, arrays as ordered sequences and scalars by
\* value.
ResultsAgree ==
    \A i \in 1..Len(h.compareJQ) :
        RunQuery(h.compareJQ[i], Unmarshal(PrimaryBS)) =
        RunQuery(h.compareJQ[i], Unmarshal(ShadowBS))

\* C12: in extraction mode, once compareBody has run on the two captured
\* bodies it has reported a match if and only if the results of every
\* configured query agree.
C12_ExtractionVerdict ==
    (/\ cmpPc # "wait"
     /\ Len(h.compareJQ) > 0
     /\ Buffered(rec["secondary"])
     /\ ~h.NoLog)
    => /\ ~Crashed
       /\ CountMsg("shadow_mismatch") = 0 <=> ResultsAgree

\* C13: the comparison goroutine never panics.
C13_ComparatorTotal == ~Crashed

\* At least one comparison dimension is configured.
AnyDimension ==
    \/ h.CompareStatus
    \/ h.CompareBody
    \/ Len(h.CompareHeaders) > 0
    \/ Len(h.CompareJQ) > 0

\* Every comparison toggle is configured.
AllDimensions ==
    /\ h.CompareStatus
    /\ h.CompareBody
    /\ Len(h.CompareHeaders) > 0
    /\ Len(h.CompareJQ) > 0

\* The answers of the mirrored request that went through a recorder.
Recorded == {p \in Paths : mirrored /\ hs[p].responded}
Encoded(p) == hs[p].resp.hdr["Content-Encoding"] # <<>>

\* C14 as stated: a response with status 204, or with a Content-Encoding
\* header, is never buffered.
C14_No204NoEncoded ==
    \A p \in Recorded : (hs[p].resp.status = 204 \/ Encoded(p)) => ~Buffered(rec[p])

\* C14 as the code has it: a response with a status outside [200,300), or
\* with a Content-Encoding header, is never buffered, even when every
\* toggle is enabled; a 204 response without Content-Encoding is buffered
\* whenever a comparison dimension is enabled.
C14_NoNon2xxNoEncoded ==
    \A p \in Recorded :
        /\ (hs[p].resp.status \notin 200..299 \/ Encoded(p)) => ~Buffered(rec[p])
        /\ (hs[p].resp.status = 204 /\ ~Encoded(p) /\ AnyDimension) => Buffered(rec[p])

C14_Witness ==
    /\ AllDimensions
    /\ "primary" \in Recorded /\ "secondary" \in Recorded
    /\ hs["primary"].resp.status = 200 /\ Encoded("primary") /\ ~Buffered(rec["primary"])
    /\ hs["secondary"].resp.status = 204 /\ ~Encoded("secondary")
    /\ Buffered(rec["secondary"])

\* C20: a recorded response is buffered if and only if its status is in
\* [200,300), at least one comparison dimension is enabled and it has no
\* Content-Encoding header; with no dimension enabled nothing is buffered.
C20_ShouldBufferIff ==
    \A p \in Recorded :
        Buffered(rec[p]) <=> /\ hs[p].resp.status >= 200
                             /\ hs[p].resp.status < 300
                             /\ AnyDimension
                             /\ ~Encoded(p)

C20_Witness ==
    /\ ~AnyDimension
    /\ "primary" \in Recorded /\ "secondary" \in Recorded
    /\ hs["primary"].resp.status = 299 /\ ~Encoded("primary") /\ ~Buffered(rec["primary"])
    /\ hs["secondary"].resp.status = 200

\* C15: once provisioned from a configured rate, a request is mirrored
\* always when the rate is 0, never when the rate is negative, and otherwise
\* exactly when the draw (in hundredths) is below the percentage; where no
\* draw is taken the decision is the one every draw would give.
C15_SamplingBands ==
    mainPc # "start" =>
        \A c \in SampleConfigs :
            Provision(c) = h =>
                LET p == c.MirrorRate
                    band(d) == IF p = 0 THEN TRUE ELSE IF p < 0 THEN FALSE ELSE d < p
                IN IF drawn = NoDraw
                   THEN \A d \in Draws : mirrored = band(d)
                   ELSE mirrored = band(drawn)

C15_Witness ==
    /\ mainPc # "start"
    /\ h.MirrorRate = 50
    /\ drawn = 49
    /\ mirrored

\* The capture buffers a task of the request can still use: the handlers
\* write them while they run, ServeHTTP reads the primary one until it has
\* returned, and the comparison goroutine reads both until it has finished.
CaptureInUse ==
    IF \/ mainPc \in {"primary", "afterPrimary"}
       \/ hs["secondary"].st = "run"
       \/ cmpPc \in {"wait", "headers", "status"}
    THEN {rec[p].buf : p \in Paths} \ {NoBuf}
    ELSE {}

\* The buffers of the duplexed body a consumer can still use: a handler
\* may read the body until it returns.
DuplexInUse ==
    IF \E p \in Paths : hs[p].st = "run"
    THEN {dx.buf[p] : p \in Paths} \ {NoBuf}
    ELSE {}

\* C18: no buffer that a task of the request can still use is in the pool
\* or in the hands of another request.
C18_NoEarlyRelease ==
    \A b \in CaptureInUse \cup DuplexInUse : b \notin pool /\ other.buf # b

\* The comparison goroutine has called the comparator.
ComparatorInvoked == cmpPc \in {"headers", "status", "done", "panic"}

\* A mirrored request with comparison configured whose two handlers have
\* returned.
BothCompleted ==
    /\ mirrored
    /\ shouldCompare(h)
    /\ hs["primary"].st = "ret"
    /\ hs["secondary"].st = "ret"

\* C19 as stated: for every mirrored request with comparison configured
\* the comparator is invoked at most once and only after the secondary
\* handler has returned, ServeHTTP can always go on to its return without
\* it, and once both handlers have returned the comparator is eventually
\* invoked.
C19_ComparatorOnceAfterSecondary ==
    /\ [](ComparatorInvoked => hs["secondary"].st = "ret")
    /\ [](mainPc = "afterPrimary" => ENABLED ServeReturn)
    /\ [][cmpPc' # cmpPc =>
             <<cmpPc, cmpPc'>> \in {<<"idle", "wait">>, <<"wait", "headers">>,
                                    <<"wait", "panic">>, <<"headers", "status">>,
                                    <<"status", "done">>}]_vars
    /\ (BothCompleted ~> ComparatorInvoked)

\* C19 for the requests whose primary handler returned no error: the same
\* ordering, and the comparator is eventually invoked once both handlers
\* have returned; after a primary error it is never invoked.
C19_ComparatorUnlessPrimaryError ==
    /\ [](ComparatorInvoked => hs["secondary"].st = "ret")
    /\ [](mainPc = "afterPrimary" => ENABLED ServeReturn)
    /\ [][cmpPc' # cmpPc =>
             <<cmpPc, cmpPc'>> \in {<<"idle", "wait">>, <<"wait", "headers">>,
                                    <<"wait", "panic">>, <<"headers", "status">>,
                                    <<"status", "done">>}]_vars
    /\ ((BothCompleted /\ hs["primary"].err = "") ~> ComparatorInvoked)
    /\ [](hs["primary"].err # "" => cmpPc = "idle")

C19_Witness ==
    /\ BothCompleted
    /\ hs["primary"].err = ""
    /\ mainPc = "done"
    /\ cmpPc = "done"
    /\ h.CompareStatus

\* The context of a path is done only by its own deadline, not before the
\* timeout has passed, or by the cancel that runs when the handler has
\* returned.
OnlyTimeoutOrReturn(p) ==
    LET err == Err(ctx[p], ctx.request)
    IN err # "" => \/ err = "deadline exceeded" /\ now >= h.timeout
                   \/ err = "canceled" /\ hs[p].st = "ret"

\* C16 as stated: the context any handler runs under is never done because
\* the inbound request's context is; it is done only by its timeout or by
\* the handler's return.
C16_ContextDetached ==
    \A p \in Paths : ctx[p].made => OnlyTimeoutOrReturn(p)

\* C16 for mirrored requests: both handlers run under contexts that are
\* done only by the timeout, which is the configured one, or the handler's
\* return; without mirroring the primary handler runs under the inbound
\* request's own context.
C16_ContextDetachedWhenMirrored ==
    /\ mirrored =>
          \A p \in Paths :
              /\ ctx[p].made /\ ctx[p].timed /\ ctx[p].deadline = h.timeout
              /\ OnlyTimeoutOrReturn(p)
    /\ (mainPc # "start" /\ ~mirrored) =>
          /\ ctx["primary"] = InboundContext
          /\ ~ctx["secondary"].made

C16_Witness ==
    /\ mirrored
    /\ h.timeout = 1
    /\ ctx.request = "canceled"
    /\ hs["primary"].st = "run" /\ Err(ctx["primary"], ctx.request) = ""
    /\ hs["secondary"].st = "run"
    /\ Err(ctx["secondary"], ctx.request) = "deadline exceeded"

\* C17: the secondary request of a mirrored request carries its own vars
\* map, a copy of the inbound request's map as it was before the handlers
\* started: no value written by one handler is in the other handler's map.
C17_VarsMapNotShared ==
    mirrored =>
        /\ varsMap.of["primary"] # varsMap.of["secondary"]
        /\ \A k \in VarKeys :
             /\ varsMap.maps[varsMap.of["primary"]][k] \in {"init", "primary"}
             /\ varsMap.maps[varsMap.of["secondary"]][k] \in {"init", "secondary"}

C17_Witness ==
    /\ mirrored
    /\ varsMap.maps[varsMap.of["primary"]]["k1"] = "primary"
    /\ varsMap.maps[varsMap.of["secondary"]]["k1"] = "secondary"
    /\ varsMap.maps[varsMap.of["secondary"]]["k2"] = "init"

\* C21: once compareBody has run without a panic, its verdict is the
\* extraction verdict when at least one query is configured, and otherwise,
\* an empty compare_jq list included, byte equality of the two bodies when
\* compare_body is set.
C21_OneBodyMode ==
    (/\ cmpPc \notin {"wait", "panic"}
     /\ Buffered(rec["secondary"])
     /\ ~h.NoLog)
    => IF Len(h.CompareJQ) > 0
       THEN CountMsg("shadow_mismatch") = 0 <=> ResultsAgree
       ELSE h.CompareBody => (CountMsg("shadow_mismatch") = 0 <=> PrimaryBS = ShadowBS)

\* C22: with neither compare_body nor a jq query configured, no
\* shadow_mismatch event is logged and no counter is incremented, whatever
\* the two bodies are.
C22_NoBodyComparisonUnlessEnabled ==
    ~BodyComparisonEnabled =>
        /\ CountMsg("shadow_mismatch") = 0
        /\ metrics.match = 0
        /\ metrics.mismatch = 0

\* C23: with body comparison enabled, compareBody has no effect (no
\* shadow_mismatch event, no counter, no panic) on a request unless both
\* recorders buffered their response.
C23_BodyComparedOnlyIfBothCaptured ==
    (/\ BodyComparisonEnabled
     /\ ~(Buffered(rec["primary"]) /\ Buffered(rec["secondary"])))
    => /\ CountMsg("shadow_mismatch") = 0
       /\ metrics.match = 0
       /\ metrics.mismatch = 0
       /\ ~Crashed

\* C24: for a mirrored request the log holds exactly one
\* primary_handler_error event if the primary handler has returned an
\* error, and none otherwise; and likewise one secondary_handler_error
\* event for the secondary handler.
C24_OneErrorEventPerFailure ==
    mirrored =>
        /\ CountMsg("primary_handler_error") =
              IF hs["primary"].st = "ret" /\ hs["primary"].err # "" THEN 1 ELSE 0
        /\ CountMsg("secondary_handler_error") =
              IF hs["secondary"].st = "ret" /\ hs["secondary"].err # "" THEN 1 ELSE 0

\* C25: when the primary handler of a mirrored request has returned
\* without error, ServeHTTP does not panic, and once it has returned the
\* client sink holds exactly the status and the body the primary handler
\* wrote, or nothing at all (no status, no byte) if it wrote nothing.
C25_ClientGetsPrimaryResponseOnce ==
    (mirrored /\ hs["primary"].st = "ret" /\ hs["primary"].err = "") =>
        /\ mainPc # "panic"
        /\ mainPc = "done" =>
              IF hs["primary"].responded
              THEN /\ client.wroteHeader
                   /\ client.status = hs["primary"].resp.status
                   /\ client.body = hs["primary"].resp.body
              ELSE /\ ~client.wroteHeader
                   /\ client.body = <<>>

====
